---- MODULE Spec2Model ----
(***************************************************************************)
(* Model of the ping-api service: GET /ping (src/main.py) on top of the    *)
(* SQLite "users" table (src/database.py).                                 *)
(*                                                                         *)
(* Header values are sequences of characters (one-character strings, or    *)
(* the code point for a character TLA+ cannot write), so that str.strip()  *)
(* and the emptiness tests are computed on characters.                     *)
(* Timestamps are integer ticks of the UTC clock; strftime keeps whole     *)
(* seconds only.                                                           *)
(***************************************************************************)
EXTENDS Naturals, Integers, Sequences, FiniteSets, TLC

\* ------------------------------------------------------------------ bounds
NumReq == 2
MaxClock == 1

Requests == 1..NumReq

\* ------------------------------------------------------- program constants
TicksPerSecond == 2

\* The service can start at any moment; it starts on the last tick of a
\* second, so that the first tick of the clock begins the next second.
StartTick == TicksPerSecond - 1

HTTP_200_OK == 200
HTTP_400_BAD_REQUEST == 400
HTTP_422_UNPROCESSABLE == 422
HTTP_500_INTERNAL == 500

\* The characters str.strip() removes: the 29 characters for which
\* str.isspace() holds. A character without a TLA+ string escape is written
\* by its code point.
Whitespace ==
    {"\t", "\n", "U+000B", "\f", "\r", "U+001C", "U+001D", "U+001E", "U+001F",
     " ", "U+0085", "U+00A0", "U+1680", "U+2000", "U+2001", "U+2002", "U+2003",
     "U+2004", "U+2005", "U+2006", "U+2007", "U+2008", "U+2009", "U+200A",
     "U+2028", "U+2029", "U+202F", "U+205F", "U+3000"}

\* -------------------------------------------------------------- header values
Present(v) == [present |-> TRUE, value |-> v]
Absent == [present |-> FALSE, value |-> <<>>]

IdA == <<"a">>
IdB == <<"b">>
\* "a" between a newline and a tab
PaddedIdA == <<"\n", "a", "\t">>
\* a space and a no-break space
BlankId == <<" ", "U+00A0">>
UTC == <<"U", "T", "C">>
Tokyo == <<"A", "s", "i", "a", "/", "T", "o", "k", "y", "o">>
NotATimezone == <<"N", "o", "t", "A", "T", "i", "m", "e", "z", "o", "n", "e">>

\* X-User-Id / X-Timezone pairs a client sends
Headers ==
    {<<Present(PaddedIdA), Absent>>,
     <<Present(IdB), Present(<<>>)>>,
     <<Present(IdA), Present(Tokyo)>>,
     <<Present(<<>>), Present(UTC)>>,
     <<Present(BlankId), Present(NotATimezone)>>,
     <<Present(IdA), Present(<<" ">>)>>,
     <<Present(IdB), Present(NotATimezone)>>,
     <<Absent, Present(UTC)>>}

\* ------------------------------------------------------------ pure functions
RECURSIVE lstrip(_)
lstrip(s) ==
    IF s = <<>> THEN s
    ELSE IF Head(s) \in Whitespace THEN lstrip(Tail(s)) ELSE s

RECURSIVE rstrip(_)
rstrip(s) ==
    IF s = <<>> THEN s
    ELSE IF s[Len(s)] \in Whitespace THEN rstrip(SubSeq(s, 1, Len(s) - 1)) ELSE s

\* mutant: the value is used as sent
strip_Identity(s) == s

\* str.strip()
strip(s) == rstrip(lstrip(s))

\* the IANA database ZoneInfo(key) looks keys up in
TzDatabase ==
    {[key |-> UTC, utcoffset |-> 0, tzname |-> "UTC"],
     [key |-> Tokyo, utcoffset |-> 32400, tzname |-> "JST"]}

ZoneInfoFound(key) == \E z \in TzDatabase : z.key = key

ZoneInfo(key) == CHOOSE z \in TzDatabase : z.key = key

\* instant.astimezone(tz).strftime("%Y-%m-%d %H:%M:%S %Z"): wall-clock seconds
\* in the zone and the zone's abbreviation; sub-second ticks are dropped
strftime(t, tz) ==
    [wall |-> (t \div TicksPerSecond) + tz.utcoffset, zone |-> tz.tzname]

\* ------------------------------------------------------------------ responses
NoResp == [status |-> 0, detail |-> <<>>, message |-> <<>>, views |-> 0,
           updated_at |-> <<>>]

UserIdRequiredDetail ==
    << <<"X-User-Id header is ">>, <<"required">>, <<" and cannot be empty.">> >>

\* mutant: the message does not quote the value
InvalidTimezoneDetail_NoValue(tzin) ==
    << <<"Invalid timezone">>, <<". Use ">>, <<"IANA format">>,
       <<" (e.g., America/New_York, Europe/London).">> >>

InvalidTimezoneDetail(tzin) ==
    << <<"Invalid timezone">>, <<": '">>, tzin, <<"'. Use ">>, <<"IANA format">>,
       <<" (e.g., America/New_York, Europe/London).">> >>

HTTPException(code, d) ==
    [status |-> code, detail |-> d, message |-> <<>>, views |-> 0,
     updated_at |-> <<>>]

RequestValidationError ==
    [status |-> HTTP_422_UNPROCESSABLE, detail |-> << <<"Field required">> >>,
     message |-> <<>>, views |-> 0, updated_at |-> <<>>]

InternalServerError ==
    [status |-> HTTP_500_INTERNAL, detail |-> << <<"Internal Server Error">> >>,
     message |-> <<>>, views |-> 0, updated_at |-> <<>>]

PingResponse(msg, v, upd) ==
    [status |-> HTTP_200_OK, detail |-> <<>>, message |-> msg, views |-> v,
     updated_at |-> upd]

\* ---------------------------------------------------------------- the table
NoRow == [id |-> <<>>, views |-> 0, created_at |-> 0, updated_at |-> 0]

RowsOf(table, uid) == {row \in table : row.id = uid}

\* mutant: INSERT OR REPLACE, the counter restarts at 1
UpsertRow_Replace(table, uid, t) ==
    [id |-> uid, views |-> 1, created_at |-> t, updated_at |-> t]

\* mutant: the inserted row starts at the column default 0
UpsertRow_FromZero(table, uid, t) ==
    IF RowsOf(table, uid) = {}
    THEN [id |-> uid, views |-> 0, created_at |-> t, updated_at |-> t]
    ELSE LET old == CHOOSE row \in RowsOf(table, uid) : TRUE
         IN  [old EXCEPT !.views = old.views + 1, !.updated_at = t]

\* mutant: the update also overwrites created_at
UpsertRow_TouchCreated(table, uid, t) ==
    IF RowsOf(table, uid) = {}
    THEN [id |-> uid, views |-> 1, created_at |-> t, updated_at |-> t]
    ELSE LET old == CHOOSE row \in RowsOf(table, uid) : TRUE
         IN  [old EXCEPT !.views = old.views + 1, !.created_at = t,
                         !.updated_at = t]

\* mutant: the update adds 2
UpsertRow_Double(table, uid, t) ==
    IF RowsOf(table, uid) = {}
    THEN [id |-> uid, views |-> 1, created_at |-> t, updated_at |-> t]
    ELSE LET old == CHOOSE row \in RowsOf(table, uid) : TRUE
         IN  [old EXCEPT !.views = old.views + 2, !.updated_at = t]

\* INSERT ... ON CONFLICT(id) DO UPDATE SET views = users.views + 1, updated_at = :now
\* the row the statement leaves for :user_id
UpsertRow(table, uid, t) ==
    IF RowsOf(table, uid) = {}
    THEN [id |-> uid, views |-> 1, created_at |-> t, updated_at |-> t]
    ELSE LET old == CHOOSE row \in RowsOf(table, uid) : TRUE
         IN  [old EXCEPT !.views = old.views + 1, !.updated_at = t]

\* mutant: the update is applied to every row of the table
Upsert_AllRows(table, uid, t) ==
    {[row EXCEPT !.views = row.views + 1, !.updated_at = t] :
        row \in table \ RowsOf(table, uid)}
    \cup {UpsertRow(table, uid, t)}

\* mutant: a plain INSERT, the conflicting row stays beside the new one
Upsert_KeepOld(table, uid, t) == table \cup {UpsertRow(table, uid, t)}

\* the table after the statement: the conflicting row is replaced in place,
\* every other row is kept
Upsert(table, uid, t) ==
    (table \ RowsOf(table, uid)) \cup {UpsertRow(table, uid, t)}

\* db.query(User).filter(User.id == uid).first()
QueryFirst(table, uid) ==
    IF RowsOf(table, uid) = {} THEN NoRow
    ELSE CHOOSE row \in RowsOf(table, uid) : TRUE

\* ---------------------------------------------------------------------- state
\* pc          position of each request
\* hdr         the headers each request arrived with
\* x_user_id   handler local
\* x_timezone  handler local
\* now         handler local: datetime.now(timezone.utc) of line 64
\* session     get_db session of each request: "none", "open", "closed"
\* user        handler local: the row read back at line 79
\* txn         table as written by the request's open write transaction
\* users       committed content of table users
\* wrote       the row each request's committed upsert produced
\* resp        response of each request
\* clock       the UTC clock
VARIABLES pc, hdr, x_user_id, x_timezone, now, user, session, txn, users, wrote, resp, clock

vars == <<pc, hdr, x_user_id, x_timezone, now, user, session, txn, users,
          wrote, resp, clock>>

NoTxn == {NoRow}

\* SQLite allows one write transaction at a time
WriteLocked == \E q \in Requests : txn[q] # NoTxn

Init ==
    /\ pc = [r \in Requests |-> "idle"]
    /\ hdr = [r \in Requests |-> <<Absent, Absent>>]
    /\ x_user_id = [r \in Requests |-> <<>>]
    /\ x_timezone = [r \in Requests |-> <<>>]
    /\ now = [r \in Requests |-> 0]
    /\ user = [r \in Requests |-> NoRow]
    /\ session = [r \in Requests |-> "none"]
    /\ txn = [r \in Requests |-> NoTxn]
    /\ users = {}
    /\ wrote = [r \in Requests |-> NoRow]
    /\ resp = [r \in Requests |-> NoResp]
    /\ clock = StartTick

\* ------------------------------------------------------------------- actions

\* time passes
Tick ==
    /\ clock < StartTick + MaxClock
    /\ clock' = clock + 1
    /\ UNCHANGED <<pc, hdr, x_user_id, x_timezone, now, user, session, txn,
                   users, wrote, resp>>

\* mutant: X-User-Id declared with a default, so never missing
RequiredHeaderMissing_Optional(h) == FALSE

\* x_user_id is declared without a default (line 39): a request without the
\* header fails the framework's validation
RequiredHeaderMissing(h) == ~h[1].present

\* ping returned or raised: its frame, and with it its locals, is gone
Leave(r) ==
    /\ x_user_id' = [x_user_id EXCEPT ![r] = <<>>]
    /\ x_timezone' = [x_timezone EXCEPT ![r] = <<>>]
    /\ now' = [now EXCEPT ![r] = 0]
    /\ user' = [user EXCEPT ![r] = NoRow]
    /\ pc' = [pc EXCEPT ![r] = "release"]

\* The framework resolves the parameters of ping: get_db opens a session,
\* X-User-Id is required, X-Timezone defaults to "UTC".
\* Requests are numbered in the order in which they arrive.
Receive(r, h) ==
    /\ pc[r] = "idle"
    /\ \A q \in Requests : q < r => pc[q] # "idle"
    /\ hdr' = [hdr EXCEPT ![r] = h]
    /\ session' = [session EXCEPT ![r] = "open"]
    /\ IF RequiredHeaderMissing(h)
       THEN /\ resp' = [resp EXCEPT ![r] = RequestValidationError]
            /\ pc' = [pc EXCEPT ![r] = "release"]
            /\ UNCHANGED <<x_user_id, x_timezone>>
       ELSE /\ x_user_id' = [x_user_id EXCEPT ![r] = h[1].value]
            /\ x_timezone' = [x_timezone EXCEPT ![r] =
                                 IF h[2].present THEN h[2].value ELSE UTC]
            /\ pc' = [pc EXCEPT ![r] = "handler"]
            /\ UNCHANGED resp
    /\ UNCHANGED <<now, user, txn, users, wrote, clock>>

\* mutant: the empty timezone is looked up as it is
DefaultedTimezone_NoDefault(tzin) == tzin

\* the timezone the handler looks up (lines 51-52)
DefaultedTimezone(tzin) == IF tzin = <<>> THEN UTC ELSE tzin

\* mutant: only the empty string is refused
UserIdMissing_NoStrip(uid) == uid = <<>>

\* user id check (line 43)
UserIdMissing(uid) == uid = <<>> \/ strip(uid) = <<>>

\* ping, lines 43-64: validation, then the timestamp of the upsert
Validate(r) ==
    /\ pc[r] = "handler"
    /\ IF UserIdMissing(x_user_id[r])
       THEN /\ resp' = [resp EXCEPT ![r] =
                   HTTPException(HTTP_400_BAD_REQUEST, UserIdRequiredDetail)]
            /\ Leave(r)
       ELSE IF ~ZoneInfoFound(DefaultedTimezone(x_timezone[r]))
       THEN /\ resp' = [resp EXCEPT ![r] =
                   HTTPException(HTTP_400_BAD_REQUEST,
                       InvalidTimezoneDetail(DefaultedTimezone(x_timezone[r])))]
            /\ Leave(r)
       ELSE /\ x_user_id' = [x_user_id EXCEPT ![r] = strip(x_user_id[r])]
            /\ x_timezone' = [x_timezone EXCEPT ![r] =
                                 DefaultedTimezone(x_timezone[r])]
            /\ now' = [now EXCEPT ![r] = clock]
            /\ pc' = [pc EXCEPT ![r] = "execute"]
            /\ UNCHANGED <<resp, user>>
    /\ UNCHANGED <<hdr, session, txn, users, wrote, clock>>

\* ping, lines 66-75: the upsert, inside the session's write transaction
Execute(r) ==
    /\ pc[r] = "execute"
    /\ ~WriteLocked
    /\ txn' = [txn EXCEPT ![r] = Upsert(users, x_user_id[r], now[r])]
    /\ pc' = [pc EXCEPT ![r] = "commit"]
    /\ UNCHANGED <<hdr, x_user_id, x_timezone, now, user, session, users,
                   wrote, resp, clock>>

\* the store raises (unreachable, database is locked, ...): the exception
\* leaves ping and becomes a 500
StoreError(r, at) ==
    /\ pc[r] = at
    /\ resp' = [resp EXCEPT ![r] = InternalServerError]
    /\ Leave(r)
    /\ UNCHANGED <<hdr, session, txn, users, wrote, clock>>

ExecuteFail(r) == StoreError(r, "execute")

\* ping, line 76
Commit(r) ==
    /\ pc[r] = "commit"
    /\ users' = txn[r]
    /\ wrote' = [wrote EXCEPT ![r] = QueryFirst(txn[r], x_user_id[r])]
    /\ txn' = [txn EXCEPT ![r] = NoTxn]
    /\ pc' = [pc EXCEPT ![r] = "query"]
    /\ UNCHANGED <<hdr, x_user_id, x_timezone, now, user, session, resp,
                   clock>>

CommitFail(r) == StoreError(r, "commit")

\* ping, line 79: read the row back
ReadBack(r) ==
    /\ pc[r] = "query"
    /\ user' = [user EXCEPT ![r] = QueryFirst(users, x_user_id[r])]
    /\ pc' = [pc EXCEPT ![r] = "respond"]
    /\ UNCHANGED <<hdr, x_user_id, x_timezone, now, session, txn, users,
                   wrote, resp, clock>>

\* ping, lines 81-92: take the current time and build the response from the
\* row read at line 79
Respond(r) ==
    /\ pc[r] = "respond"
    /\ LET tz == ZoneInfo(x_timezone[r])
       IN  resp' = [resp EXCEPT ![r] =
               PingResponse(<< <<"Pong @ ">>, strftime(clock, tz) >>,
                            user[r].views,
                            strftime(user[r].updated_at, tz))]
    /\ Leave(r)
    /\ UNCHANGED <<hdr, session, txn, users, wrote, clock>>

ReadBackFail(r) == StoreError(r, "query")

\* mutant: no finally, the session is closed on the normal path only
Close_NoFinally(r) ==
    /\ pc[r] = "release"
    /\ session' = [session EXCEPT ![r] =
                       IF resp[r].status = HTTP_200_OK THEN "closed" ELSE "open"]
    /\ txn' = [txn EXCEPT ![r] = NoTxn]
    /\ pc' = [pc EXCEPT ![r] = "done"]
    /\ UNCHANGED <<hdr, x_user_id, x_timezone, now, user, users, wrote, resp,
                   clock>>

\* mutant: closing the session flushes what was not committed
Close_CommitOnClose(r) ==
    /\ pc[r] = "release"
    /\ session' = [session EXCEPT ![r] = "closed"]
    /\ users' = IF txn[r] # NoTxn THEN txn[r] ELSE users
    /\ txn' = [txn EXCEPT ![r] = NoTxn]
    /\ pc' = [pc EXCEPT ![r] = "done"]
    /\ UNCHANGED <<hdr, x_user_id, x_timezone, now, user, wrote, resp, clock>>

\* get_db, finally: db.close() rolls back what was not committed
Close(r) ==
    /\ pc[r] = "release"
    /\ session' = [session EXCEPT ![r] = "closed"]
    /\ txn' = [txn EXCEPT ![r] = NoTxn]
    /\ pc' = [pc EXCEPT ![r] = "done"]
    /\ UNCHANGED <<hdr, x_user_id, x_timezone, now, user, users, wrote, resp,
                   clock>>

Step(r) ==
    \/ Validate(r)
    \/ Execute(r)
    \/ ExecuteFail(r)
    \/ Commit(r)
    \/ CommitFail(r)
    \/ ReadBack(r)
    \/ ReadBackFail(r)
    \/ Respond(r)
    \/ Close(r)

Next ==
    \/ Tick
    \/ \E r \in Requests, h \in Headers : Receive(r, h)
    \/ \E r \in Requests : Step(r)

Spec == Init /\ [][Next]_vars

\* A client that issues its requests one after another: a request is sent
\* only when no other request is in flight.
SeqReceive(r, h) ==
    /\ \A q \in Requests : pc[q] \in {"idle", "done"}
    /\ Receive(r, h)

NextSeq ==
    \/ Tick
    \/ \E r \in Requests, h \in Headers : SeqReceive(r, h)
    \/ \E r \in Requests : Step(r)

SeqSpec == Init /\ [][NextSeq]_vars

\* Every request is served by a thread that keeps running: a request that can
\* take a step takes one (a write that waits for the lock ends in the store's
\* "database is locked" error at the latest).
\* One request per way out of ping: answered 200 (or 500 when the store
\* fails), refused for its user id, refused for its timezone, refused by
\* the framework.
ExitPathHeaders ==
    {<<Present(IdA), Present(Tokyo)>>,
     <<Present(<<>>), Present(UTC)>>,
     <<Present(IdB), Present(NotATimezone)>>,
     <<Absent, Present(UTC)>>}

NextFair ==
    \/ Tick
    \/ \E r \in Requests, h \in ExitPathHeaders : Receive(r, h)
    \/ \E r \in Requests : Step(r)

FairSpec ==
    /\ Init
    /\ [][NextFair]_vars
    /\ \A r \in Requests : WF_vars(Step(r))

\* ------------------------------------------------------- vocabulary of claims
Received(r) == pc[r] # "idle"

Responded(r) == pc[r] \in {"release", "done"}

Succeeded(r) == Responded(r) /\ resp[r].status = HTTP_200_OK

StoreFailed(r) == Responded(r) /\ resp[r].status = HTTP_500_INTERNAL

Committed(r) == wrote[r] # NoRow

IsWhitespaceOnly(s) == \A i \in 1..Len(s) : s[i] \in Whitespace

UserIdHeader(r) == hdr[r][1]

TimezoneHeader(r) == hdr[r][2]

\* the request carries a user id the handler accepts
ValidUserId(r) ==
    /\ Received(r)
    /\ UserIdHeader(r).present
    /\ ~IsWhitespaceOnly(UserIdHeader(r).value)

ValidTimezone(r) ==
    /\ Received(r)
    /\ \/ ~TimezoneHeader(r).present
       \/ TimezoneHeader(r).value \in {<<>>, UTC, Tokyo}

\* the id a request counts for
UserOf(r) == strip(UserIdHeader(r).value)

ValidFor(u) == {r \in Requests : ValidUserId(r) /\ ValidTimezone(r) /\ UserOf(r) = u}

CommittedFor(u) == {r \in Requests : Committed(r) /\ wrote[r].id = u}

Ids == {IdA, IdB}

\* the zone a valid request is answered in
ZoneOf(r) ==
    ZoneInfo(DefaultedTimezone(IF TimezoneHeader(r).present
                               THEN TimezoneHeader(r).value ELSE UTC))

StoredViews(u) == QueryFirst(users, u).views

Contains(detail, part) == \E i \in 1..Len(detail) : detail[i] = part

\* ----------------------------------------------------------------- claims

\* C1: when K >= 2 requests for one id run concurrently from a counter C
\* (here C = 0), the views they return are exactly {C+1, ..., C+K}: no value
\* twice, no value skipped.
C1_ReturnedViewsExact ==
    \A u \in Ids :
        LET S == ValidFor(u)
        IN  (/\ \A r \in Requests : pc[r] \in {"idle", "done"}
             /\ Cardinality(S) >= 2
             /\ \A r \in S : Succeeded(r))
            => {resp[r].views : r \in S} = 1..Cardinality(S)

\* C2: no increment is lost. The stored views of an id equals the number of
\* requests whose upsert was committed for it, so K requests that all
\* succeeded leave views = K, and a request reading its row back when K other
\* requests for the id have committed reads K + 1 and returns what it read.
C2_StoredEqualsCommitted ==
    /\ \A u \in Ids : StoredViews(u) = Cardinality(CommittedFor(u))
    /\ \A u \in Ids :
        (\A r \in ValidFor(u) : Succeeded(r))
            => StoredViews(u) = Cardinality(ValidFor(u))

C2_ReadBackSeesAll ==
    \A r \in Requests :
        /\ (pc[r] = "query" /\ pc'[r] = "respond")
               => user'[r].views =
                      Cardinality(CommittedFor(x_user_id[r]) \ {r}) + 1
        /\ (pc[r] = "respond" /\ Succeeded(r)')
               => resp'[r].views = user[r].views

C2_NoLostIncrement == [](C2_StoredEqualsCommitted) /\ [][C2_ReadBackSeesAll]_vars

C2_Witness ==
    \E r, q \in Requests :
        /\ r # q
        /\ pc[r] = "done" /\ pc[q] = "done"
        /\ Succeeded(r) /\ Succeeded(q)
        /\ UserOf(r) = UserOf(q)
        /\ resp[r].views = 2 /\ resp[q].views = 2
        /\ StoredViews(UserOf(r)) = 2

\* C3: requests for one id issued one after another: the first returns
\* views = 1 and the Nth returns N (N counts the requests answered for the
\* id, this one included; no store failure among them).
C3_NthReturnsN_Step ==
    \A r \in Requests :
        (/\ pc[r] = "respond"
         /\ Succeeded(r)'
         /\ \A q \in ValidFor(x_user_id[r]) \ {r} : ~StoreFailed(q))
        => resp'[r].views =
               Cardinality({q \in ValidFor(x_user_id[r]) : Succeeded(q)}) + 1

C3_NthReturnsN == [][C3_NthReturnsN_Step]_vars

C3_Witness ==
    \E r, q \in Requests :
        /\ r # q
        /\ pc[r] = "done" /\ pc[q] = "done"
        /\ UserOf(r) = UserOf(q)
        /\ Succeeded(r) /\ resp[r].views = 1
        /\ Succeeded(q) /\ resp[q].views = 2

\* C4: counters are independent: a step of a request for id A leaves the
\* stored record (views, created_at, updated_at) of every other id unchanged.
C4_Independent_Step ==
    \A r \in Requests :
        pc'[r] # pc[r]
            => \A u \in Ids \ {strip(hdr'[r][1].value)} :
                   RowsOf(users', u) = RowsOf(users, u)

C4_Independent == [][C4_Independent_Step]_vars

C4_Witness ==
    \E r, q \in Requests :
        /\ Committed(r) /\ Committed(q)
        /\ wrote[r].id = IdA /\ wrote[q].id = IdB
        /\ RowsOf(users, IdA) # {} /\ RowsOf(users, IdB) # {}

\* C5: every stored record has updated_at >= created_at, also when the
\* upserts of one id are applied in another order than their timestamps
\* were taken.
C5_UpdatedNotBeforeCreated ==
    \A row \in users : row.updated_at >= row.created_at

\* C6: no partial failure: a request either commits its increment and ends
\* with a success response, or fails and has committed nothing.
C6_NoPartialFailure ==
    \A r \in Requests :
        Responded(r) =>
            \/ Succeeded(r) /\ Committed(r)
            \/ ~Succeeded(r) /\ ~Committed(r)

\* C7: a successful request returns the values of its own increment: the
\* views its upsert produced and the updated_at its upsert wrote.
C7_ReturnsOwnIncrement ==
    \A r \in Requests :
        Succeeded(r) =>
            /\ resp[r].views = wrote[r].views
            /\ resp[r].updated_at =
                   strftime(wrote[r].updated_at, ZoneOf(r))

\* C8 (original): an empty, whitespace-only or absent X-User-Id is rejected
\* with 400 and a detail containing "required".
C8_MissingUserIdIs400 ==
    \A r \in Requests :
        (Responded(r) /\ (~UserIdHeader(r).present
                          \/ IsWhitespaceOnly(UserIdHeader(r).value)))
            => /\ resp[r].status = HTTP_400_BAD_REQUEST
               /\ Contains(resp[r].detail, <<"required">>)

\* C8 (amended): an empty or whitespace-only X-User-Id is rejected with 400
\* and a detail containing "required"; an absent X-User-Id is rejected
\* with 422.
C8_EmptyIs400_AbsentIs422 ==
    \A r \in Requests :
        Received(r) =>
            /\ (UserIdHeader(r).present /\ IsWhitespaceOnly(UserIdHeader(r).value))
                   => /\ pc[r] \in {"handler", "release", "done"}
                      /\ Responded(r) =>
                            /\ resp[r].status = HTTP_400_BAD_REQUEST
                            /\ Contains(resp[r].detail, <<"required">>)
            /\ ~UserIdHeader(r).present
                   => Responded(r) /\ resp[r].status = HTTP_422_UNPROCESSABLE

C8_Witness ==
    \E r, q \in Requests :
        /\ pc[r] = "done" /\ UserIdHeader(r) = Present(BlankId)
        /\ resp[r].status = HTTP_400_BAD_REQUEST
        /\ pc[q] = "done" /\ ~UserIdHeader(q).present
        /\ resp[q].status = HTTP_422_UNPROCESSABLE

\* C9: a request without the X-User-Id header is rejected with 422 by the
\* framework before the handler body runs: it never stands in the handler
\* and touches neither its locals nor the store.
C9_AbsentIs422BeforeHandler ==
    \A r \in Requests :
        (Received(r) /\ ~UserIdHeader(r).present)
            => /\ Responded(r)
               /\ resp[r].status = HTTP_422_UNPROCESSABLE
               /\ x_user_id[r] = <<>> /\ x_timezone[r] = <<>>
               /\ ~Committed(r) /\ txn[r] = NoTxn

C9_Witness ==
    \E r \in Requests :
        /\ pc[r] = "done"
        /\ ~UserIdHeader(r).present
        /\ resp[r].status = HTTP_422_UNPROCESSABLE
        /\ session[r] = "closed"

\* C10 (original): an empty or whitespace-only timezone is treated as "UTC"
\* and is not an error: with a valid user id the request is looked up and
\* formatted in UTC.
C10_BlankTimezoneIsUTC ==
    \A r \in Requests :
        (/\ Responded(r)
         /\ ValidUserId(r)
         /\ TimezoneHeader(r).present
         /\ IsWhitespaceOnly(TimezoneHeader(r).value))
        => /\ resp[r].status # HTTP_400_BAD_REQUEST
           /\ Succeeded(r) => /\ resp[r].message[2].zone = "UTC"
                              /\ resp[r].updated_at.zone = "UTC"

\* C10 (amended): an empty timezone is treated as "UTC" and is not an error:
\* with a valid user id the request is not rejected and its response is
\* formatted in UTC; a timezone of one or more whitespace characters is
\* rejected with 400 "Invalid timezone".
C10_EmptyTimezoneIsUTC ==
    \A r \in Requests :
        (/\ Responded(r)
         /\ ValidUserId(r)
         /\ TimezoneHeader(r).present
         /\ IsWhitespaceOnly(TimezoneHeader(r).value))
        => IF TimezoneHeader(r).value = <<>>
           THEN /\ resp[r].status # HTTP_400_BAD_REQUEST
                /\ Succeeded(r) => /\ resp[r].message[2].zone = "UTC"
                                   /\ resp[r].updated_at.zone = "UTC"
           ELSE /\ resp[r].status = HTTP_400_BAD_REQUEST
                /\ Contains(resp[r].detail, <<"Invalid timezone">>)
                /\ Contains(resp[r].detail, TimezoneHeader(r).value)

C10_Witness ==
    \E r, q \in Requests :
        /\ pc[r] = "done" /\ ValidUserId(r)
        /\ TimezoneHeader(r) = Present(<<>>)
        /\ Succeeded(r) /\ resp[r].message[2].zone = "UTC"
        /\ pc[q] = "done" /\ ValidUserId(q)
        /\ TimezoneHeader(q) = Present(<<" ">>)
        /\ resp[q].status = HTTP_400_BAD_REQUEST

\* the timezone header is absent or empty
NoTimezoneGiven(r) ==
    ~TimezoneHeader(r).present \/ TimezoneHeader(r).value = <<>>

\* C11: a request with a valid user id and an absent or empty X-Timezone is
\* processed with zone UTC: the handler works with "UTC" as for an explicit
\* header, the request is not rejected, its 200 response carries the UTC
\* abbreviation and its upsert incremented the counter.
C11_NoTimezoneIsUTC ==
    \A r \in Requests :
        (ValidUserId(r) /\ NoTimezoneGiven(r))
            => /\ pc[r] \in {"execute", "commit", "query", "respond"}
                     => x_timezone[r] = UTC
               /\ Responded(r) => resp[r].status \in {HTTP_200_OK, HTTP_500_INTERNAL}
               /\ Succeeded(r) =>
                     /\ resp[r].message[2].zone = "UTC"
                     /\ resp[r].updated_at.zone = "UTC"
                     /\ Committed(r)
                     /\ wrote[r].id = UserOf(r)
                     /\ wrote[r].views >= 1

C11_Witness ==
    \E r, q \in Requests :
        /\ pc[r] = "done" /\ ~TimezoneHeader(r).present
        /\ Succeeded(r) /\ resp[r].message[2].zone = "UTC" /\ resp[r].views >= 1
        /\ pc[q] = "done" /\ TimezoneHeader(q) = Present(<<>>)
        /\ Succeeded(q) /\ resp[q].message[2].zone = "UTC" /\ resp[q].views >= 1

\* C12: a request with a valid user id and a timezone string that is not a
\* known IANA zone (and not the empty string, which is defaulted) is rejected
\* with 400, and the detail carries "Invalid timezone", the offending value
\* and "IANA format".
C12_UnknownTimezoneIs400 ==
    \A r \in Requests :
        (/\ Responded(r)
         /\ ValidUserId(r)
         /\ TimezoneHeader(r).present
         /\ TimezoneHeader(r).value # <<>>
         /\ TimezoneHeader(r).value \notin {z.key : z \in TzDatabase})
        => /\ resp[r].status = HTTP_400_BAD_REQUEST
           /\ Contains(resp[r].detail, <<"Invalid timezone">>)
           /\ Contains(resp[r].detail, TimezoneHeader(r).value)
           /\ Contains(resp[r].detail, <<"IANA format">>)

C12_Witness ==
    \E r \in Requests :
        /\ pc[r] = "done"
        /\ ValidUserId(r)
        /\ TimezoneHeader(r) = Present(NotATimezone)
        /\ resp[r].status = HTTP_400_BAD_REQUEST
        /\ Contains(resp[r].detail, NotATimezone)

\* C13: when the store fails during a request's upsert or commit, the request
\* ends with 500, the write is not retried, and the stored table is what it
\* was: neither the failing step nor the later release of the session changes
\* it, and the request never commits.
C13_StoreFailure_Step ==
    \A r \in Requests :
        /\ (pc[r] \in {"execute", "commit"} /\ pc'[r] = "release")
               => /\ resp'[r].status = HTTP_500_INTERNAL
                  /\ users' = users
                  /\ ~Committed(r)'
        /\ (StoreFailed(r) /\ ~Committed(r))
               => /\ pc'[r] \in {"release", "done"}
                  /\ ~Committed(r)'
                  /\ resp'[r] = resp[r]
                  /\ pc'[r] # pc[r] => users' = users

C13_StoreFailure == [][C13_StoreFailure_Step]_vars

C13_Witness ==
    \E r, q \in Requests :
        /\ r # q
        /\ pc[r] = "done" /\ StoreFailed(r) /\ ~Committed(r)
        /\ ValidUserId(r) /\ UserOf(r) = IdA
        /\ Committed(q) /\ wrote[q].id = IdA
        /\ StoredViews(IdA) = 1

\* C14: the store holds at most one record per user id, and exactly one for
\* every id with a committed request; concurrent first requests for a new id
\* do not create two records.
C14_OneRecordPerId ==
    /\ \A row \in users : row.id \in Ids
    /\ \A u \in Ids :
          /\ Cardinality(RowsOf(users, u)) <= 1
          /\ CommittedFor(u) # {} => Cardinality(RowsOf(users, u)) = 1
          /\ CommittedFor(u) = {} => RowsOf(users, u) = {}

C14_Witness ==
    \E r, q \in Requests :
        /\ r # q
        /\ pc[r] = "query" /\ pc[q] = "query"
        /\ wrote[r].id = wrote[q].id
        /\ wrote[r].views = 1 /\ wrote[q].views = 2
        /\ Cardinality(RowsOf(users, wrote[r].id)) = 1

\* the request was rejected by the handler's validation
Rejected(r) == Responded(r) /\ resp[r].status = HTTP_400_BAD_REQUEST

\* C15: validation precedes mutation: a request rejected for an empty or
\* whitespace-only user id or for an invalid timezone has written nothing
\* (every stored row and every counted view belongs to a request that was not
\* rejected); when user id and timezone are both invalid, the user-id error is
\* the one reported.
C15_ValidationBeforeMutation ==
    /\ \A r \in Requests :
          Rejected(r) =>
              /\ ~Committed(r)
              /\ txn[r] = NoTxn
              /\ (~ValidUserId(r) /\ ~ValidTimezone(r))
                     => /\ Contains(resp[r].detail, <<"required">>)
                        /\ ~Contains(resp[r].detail, <<"Invalid timezone">>)
    /\ \A u \in Ids :
          StoredViews(u) =
              Cardinality({r \in Requests :
                  Committed(r) /\ wrote[r].id = u /\ ~Rejected(r)
                  /\ ValidUserId(r) /\ ValidTimezone(r)})

C15_Witness ==
    \E r, q \in Requests :
        /\ r # q
        /\ pc[r] = "done" /\ Rejected(r)
        /\ UserIdHeader(r) = Present(BlankId)
        /\ TimezoneHeader(r) = Present(NotATimezone)
        /\ pc[q] = "done" /\ Rejected(q)
        /\ UserIdHeader(q) = Present(IdB)
        /\ TimezoneHeader(q) = Present(NotATimezone)
        /\ users = {}

\* C16: every request that acquired a session releases it on every exit
\* path (success, 400, 422, store failure): an open session is eventually
\* closed, a finished request has none open, and only requests in flight
\* hold one.
C16_SessionScoped ==
    \A r \in Requests :
        /\ pc[r] = "idle" <=> session[r] = "none"
        /\ pc[r] = "done" <=> session[r] = "closed"

C16_SessionReleased ==
    /\ [](C16_SessionScoped)
    /\ \A r \in Requests : (session[r] = "open") ~> (session[r] = "closed")

C16_Witness ==
    \E r, q \in Requests :
        /\ r # q
        /\ session[r] = "closed" /\ session[q] = "closed"
        /\ StoreFailed(r)
        /\ Rejected(q)

\* C17: created_at is set once, by the request whose upsert inserts the
\* record (to that request's timestamp), and no later request changes it:
\* the row every committed upsert left has the created_at the record has now.
\* Later upserts change only views and updated_at.
C17_CreatedAtSetOnce ==
    \A r \in Requests :
        Committed(r) =>
            LET row == QueryFirst(users, wrote[r].id)
            IN  /\ row.id = wrote[r].id
                /\ row.created_at = wrote[r].created_at
                /\ wrote[r].views = 1 => wrote[r].created_at = wrote[r].updated_at

C17_Witness ==
    \E r, q \in Requests :
        /\ r # q
        /\ Committed(r) /\ Committed(q)
        /\ wrote[r].id = wrote[q].id
        /\ wrote[r].views = 1 /\ wrote[q].views = 2
        /\ wrote[q].updated_at # wrote[r].updated_at
        /\ QueryFirst(users, wrote[r].id).created_at = wrote[r].updated_at
        /\ QueryFirst(users, wrote[r].id).updated_at = wrote[q].updated_at

\* C18: a record, once it exists, is never deleted, its views is at least 1,
\* and its views never decreases: after every committed upsert the record is
\* there with at least the views that upsert left.
C18_NeverDeletedNeverDecreases ==
    /\ \A row \in users : row.views >= 1
    /\ \A r \in Requests :
          Committed(r) =>
              /\ RowsOf(users, wrote[r].id) # {}
              /\ wrote[r].views >= 1
              /\ StoredViews(wrote[r].id) >= wrote[r].views

C18_Witness ==
    \E r, q \in Requests :
        /\ r # q
        /\ pc[r] = "done" /\ pc[q] = "done"
        /\ Committed(r) /\ Committed(q)
        /\ wrote[r].id = wrote[q].id
        /\ wrote[r].views = 1
        /\ StoredViews(wrote[r].id) = 2

\* s is t with whitespace, and nothing else, removed at its two ends
TrimmedFrom(s, t) ==
    /\ s # <<>>
    /\ Head(s) \notin Whitespace
    /\ s[Len(s)] \notin Whitespace
    /\ \E i \in 1..Len(t) :
          /\ i + Len(s) - 1 <= Len(t)
          /\ SubSeq(t, i, i + Len(s) - 1) = s
          /\ \A k \in 1..Len(t) :
                (k < i \/ k > i + Len(s) - 1) => t[k] \in Whitespace

\* C19: the user id is trimmed before it is the store key: the row a request
\* writes is keyed by its header value without the whitespace at its ends, so
\* requests whose values differ only by such whitespace write the same
\* record, and no stored id starts or ends with whitespace.
C19_KeyIsTrimmed ==
    /\ \A row \in users :
          /\ row.id # <<>>
          /\ Head(row.id) \notin Whitespace
          /\ row.id[Len(row.id)] \notin Whitespace
    /\ \A r \in Requests :
          Committed(r) => TrimmedFrom(wrote[r].id, UserIdHeader(r).value)

C19_Witness ==
    \E r, q \in Requests :
        /\ UserIdHeader(r) = Present(PaddedIdA)
        /\ UserIdHeader(q) = Present(IdA)
        /\ Committed(r) /\ Committed(q)
        /\ wrote[r].id = IdA /\ wrote[q].id = IdA
        /\ users = {QueryFirst(users, IdA)}
        /\ StoredViews(IdA) = 2

\* C20: the views a successful request returns is at least the value its own
\* upsert produced and at most the number of increments committed for the id
\* at the moment it reads the record back (line 79); the response carries the
\* views that were read.
C20_ReturnedViewsBounds_Step ==
    \A r \in Requests :
        /\ (pc[r] = "query" /\ pc'[r] = "respond")
               => /\ user'[r].views >= wrote[r].views
                  /\ user'[r].views <= Cardinality(CommittedFor(wrote[r].id))
        /\ (pc[r] = "respond" /\ Succeeded(r)')
               => resp'[r].views = user[r].views

C20_ReturnedViewsBounds == [][C20_ReturnedViewsBounds_Step]_vars

C20_Witness ==
    \E r, q \in Requests :
        /\ r # q
        /\ Succeeded(r) /\ Succeeded(q)
        /\ wrote[r].id = wrote[q].id
        /\ wrote[r].views = 1 /\ resp[r].views = 2
        /\ wrote[q].views = 2 /\ resp[q].views = 2

====
